---- MODULE Spec2Model ----
(***************************************************************************)
(* The translated-description endpoint of shakespearean_pokemon:           *)
(* routes/translated.rs `get`, composed of PokemonClient::get_pokemon,     *)
(* Pokemon::get_description and TranslationClient::get_translation.        *)
(*                                                                         *)
(* One request is followed from its arrival to its reply.  The two         *)
(* upstream services are the environment: each answers a call with a       *)
(* transport failure or with an HTTP status and a body.                    *)
(*                                                                         *)
(* Text is a sequence of one-character strings, so that the character      *)
(* replacements of get_description are computed and not assumed.           *)
(* Option<T> is a sequence of length at most one: None is <<>>, Some(v)    *)
(* is <<v>>.  Result<T, E> is a record with the field ok.                  *)
(***************************************************************************)
EXTENDS Integers, Sequences, FiniteSets, TLC

\* ------------------------------------------------------------------ bounds

\* Number of requests in flight together.
MaxRequests == 2

\* Largest number of flavor_text_entries of a species the upstream returns.
MaxEntries == 3

\* ------------------------------------------------------- Option and Result

None == <<>>

Some(v) == <<v>>

Ok(v) == [ok |-> TRUE, val |-> v]

Err(e) == [ok |-> FALSE, err |-> e]

\* ------------------------------------------------------------------ inputs

LF == "\n"

FF == "\f"

\* Names a caller asks for, and names the species API puts in its bodies.
PokemonNames == {"charizard", "zubat"}

HabitatNames == {"cave", "urban"}

\* flavor_text values of English entries: without control characters, with a
\* newline, with a form feed, with both (apart and adjacent), and the empty text.
EnglishTexts ==
    { <<>>,
      <<"a", " ", "b">>,
      <<"a", LF, "b">>,
      <<"a", FF, "b">>,
      <<LF, "a", FF>>,
      <<"a", LF, FF, "b">> }

\* flavor_text of an entry in another language.
OtherText == <<"z", LF, "z">>

FlavorTextEntries ==
    { [flavor_text |-> t, language |-> [name |-> "en"]] : t \in EnglishTexts }
        \cup { [flavor_text |-> OtherText, language |-> [name |-> "fr"]] }

RECURSIVE SeqsUpTo(_, _)
SeqsUpTo(S, n) ==
    IF n = 0 THEN { <<>> }
    ELSE LET shorter == SeqsUpTo(S, n - 1)
         IN  shorter \cup { Append(s, x) : s \in shorter, x \in S }

\* Every species a body of the species API can deserialize into.
Pokemons ==
    [ name : PokemonNames,
      is_legendary : BOOLEAN,
      habitat : [name : HabitatNames],
      flavor_text_entries : SeqsUpTo(FlavorTextEntries, MaxEntries) ]

\* A body that does not deserialize into the expected type (the empty body
\* of the clients' it_errors_on_invalid_data tests).
InvalidBody == [json |-> FALSE]

JsonBody(v) == [json |-> TRUE, value |-> v]

\* The call failed before any HTTP response arrived (refused, timeout, DNS).
TransportFailure == [responded |-> FALSE]

HttpResponse(status, body) == [responded |-> TRUE, status |-> status, body |-> body]

\* What the species API can answer to one GET.
PokemonApiAnswers ==
    { TransportFailure }
        \cup { HttpResponse(200, JsonBody(p)) : p \in Pokemons }
        \cup { HttpResponse(s, InvalidBody) : s \in {200, 404, 429, 500} }

\* translated texts the translation API returns; "y" occurs in no flavor_text.
TranslatedTexts == { <<"y">>, <<"a", " ", "y">> }

Totals == {-1, 0, 1, 2}

TranslationResponses ==
    [ success : [total : Totals], contents : [translated : TranslatedTexts] ]

\* What the translation API can answer to one POST.
TranslationApiAnswers ==
    { TransportFailure }
        \cup { HttpResponse(200, JsonBody(r)) : r \in TranslationResponses }
        \cup { HttpResponse(s, InvalidBody) : s \in {200, 404, 429, 500} }

\* Process-wide configuration: the base URLs of the two clients.
PokemonBaseUrl == "pokeapi"

TranslationBaseUrl == "funtranslations"

ApiTokens == { None, Some("secret") }

API_TOKEN_KEY == "X-Funtranslations-Api-Secret"

\* ------------------------------------------------------------ pure functions

\* str::replace(from, to) for a one-character pattern: every occurrence of
\* `from` is replaced by the text `to`, which may be empty.
RECURSIVE replace(_, _, _)
replace(s, from, to) ==
    IF s = <<>> THEN <<>>
    ELSE (IF Head(s) = from THEN to ELSE <<Head(s)>>) \o replace(Tail(s), from, to)

\* Mutant of find_en: the last English entry instead of the first.
RECURSIVE find_en_last(_)
find_en_last(entries) ==
    IF entries = <<>> THEN None
    ELSE IF find_en_last(Tail(entries)) # None THEN find_en_last(Tail(entries))
    ELSE IF Head(entries).language.name = "en" THEN Some(Head(entries))
    ELSE None

\* flavor_text_entries.iter().find(|entry| entry.language.name == "en")
RECURSIVE find_en(_)
find_en(entries) ==
    IF entries = <<>> THEN None
    ELSE IF Head(entries).language.name = "en" THEN Some(Head(entries))
    ELSE find_en(Tail(entries))

\* Mutant of normalize_flavor_text: the text of the entry is kept as it is.
normalize_flavor_text_raw(flavor_text) == flavor_text

\* Pokemon::get_description, the closure mapped over the entry found:
\* flavor_text.replace("\n", " ").replace("\u{c}", "")
normalize_flavor_text(flavor_text) ==
    replace(replace(flavor_text, LF, <<" ">>), FF, <<>>)

\* Mutant of get_description: without English entry the description is the
\* empty text instead of None.
get_description_or_empty(pokemon) ==
    LET description == find_en(pokemon.flavor_text_entries)
    IN  IF description = None THEN Some(<<>>)
        ELSE Some(normalize_flavor_text(description[1].flavor_text))

\* Pokemon::get_description
get_description(pokemon) ==
    LET description == find_en(pokemon.flavor_text_entries)
    IN  IF description = None THEN None
        ELSE Some(normalize_flavor_text(description[1].flavor_text))

\* Mutant of get_pokemon: the NotFound arm is lost, 404 is one more status.
get_pokemon_without_404(answer) ==
    IF ~answer.responded THEN Err("PokemonAPIError")
    ELSE IF answer.status = 200
         THEN IF answer.body.json THEN Ok(answer.body.value)
              ELSE Err("PokemonDeserializationError")
    ELSE Err("PokemonAPIError")

\* PokemonClient::get_pokemon, from the upstream answer to its result.
get_pokemon(answer) ==
    IF ~answer.responded THEN Err("PokemonAPIError")
    ELSE IF answer.status = 200
         THEN IF answer.body.json THEN Ok(answer.body.value)
              ELSE Err("PokemonDeserializationError")
    ELSE IF answer.status = 404 THEN Err("PokemonNotFoundError")
    ELSE Err("PokemonAPIError")

\* The URL get_pokemon reads, as its segments.
pokemon_url(base_url, pokemon) == <<base_url, "api/v2/pokemon-species", pokemon>>

\* Mutant of as_url: the two paths exchanged.
as_url_swapped(translation_type) ==
    IF translation_type = "YODA" THEN "translate/shakespeare.json"
    ELSE "translate/yoda.json"

\* TranslationType::as_url
as_url(translation_type) ==
    IF translation_type = "YODA" THEN "translate/yoda.json"
    ELSE "translate/shakespeare.json"

\* Mutant of translation_request: without a token the header is sent empty.
translation_request_empty_header(base_url, token, text, translation_type) ==
    [ method |-> "POST",
      url |-> <<base_url, as_url(translation_type)>>,
      body |-> [text |-> text],
      headers |-> { <<API_TOKEN_KEY, IF token = None THEN "" ELSE token[1]>> } ]

\* The request TranslationClient::get_translation_response builds and sends.
translation_request(base_url, token, text, translation_type) ==
    [ method |-> "POST",
      url |-> <<base_url, as_url(translation_type)>>,
      body |-> [text |-> text],
      headers |-> IF token = None THEN {} ELSE { <<API_TOKEN_KEY, token[1]>> } ]

\* Mutant of get_translation_response: the TooManyRequests arm is lost.
get_translation_response_without_429(answer) ==
    IF ~answer.responded THEN Err("TranslationAPIError")
    ELSE IF answer.status = 200
         THEN IF answer.body.json THEN Ok(answer.body.value)
              ELSE Err("TranslationDeserializationError")
    ELSE Err("TranslationAPIError")

\* TranslationClient::get_translation_response, from the upstream answer on.
get_translation_response(answer) ==
    IF ~answer.responded THEN Err("TranslationAPIError")
    ELSE IF answer.status = 200
         THEN IF answer.body.json THEN Ok(answer.body.value)
              ELSE Err("TranslationDeserializationError")
    ELSE IF answer.status = 429 THEN Err("TranslationTooManyRequestsError")
    ELSE Err("TranslationAPIError")

\* Mutant of TranslationResponse::get_translation: a total other than 1 is
\* reported as a deserialization error.
TranslationResponse_get_translation_deser(data) ==
    IF data.success.total = 1 THEN Ok(data.contents.translated)
    ELSE Err("TranslationDeserializationError")

\* Mutant of TranslationResponse::get_translation: the total compared with 0.
TranslationResponse_get_translation_zero(data) ==
    IF data.success.total = 0 THEN Ok(data.contents.translated)
    ELSE Err("TranslationAPIError")

\* TranslationResponse::get_translation
TranslationResponse_get_translation(data) ==
    IF data.success.total = 1 THEN Ok(data.contents.translated)
    ELSE Err("TranslationAPIError")

\* TranslationClient::get_translation: `?` on the response, then its text.
get_translation(answer) ==
    LET response == get_translation_response(answer)
    IN  IF response.ok THEN TranslationResponse_get_translation(response.val)
        ELSE response

\* Mutant of select_translation_type: both conditions required.
select_translation_type_both(pokemon) ==
    IF pokemon.habitat.name = "cave" /\ pokemon.is_legendary THEN "YODA"
    ELSE "SHAKESPEARE"

\* routes/translated.rs get: the variant chosen for a fetched species.
select_translation_type(pokemon) ==
    IF pokemon.habitat.name = "cave" \/ pokemon.is_legendary THEN "YODA"
    ELSE "SHAKESPEARE"

\* Mutant of translated_description: a failed translation leaves no description.
translated_description_no_fallback(translation_response, desc) ==
    IF translation_response.ok THEN Some(translation_response.val)
    ELSE None

\* Mutant of translated_description: the translated text is dropped.
translated_description_untranslated(translation_response, desc) ==
    Some(desc)

\* routes/translated.rs get: the description after the translation call.
translated_description(translation_response, desc) ==
    IF translation_response.ok THEN Some(translation_response.val)
    ELSE Some(desc)

\* Mutant of ok_reply: the fields of the species are exchanged, the name
\* replied being the name of the habitat.
ok_reply_fields_exchanged(pokemon, description) ==
    [ status |-> 200,
      body |-> [ name |-> pokemon.habitat.name,
                 description |-> description,
                 isLegendary |-> pokemon.is_legendary,
                 habitat |-> pokemon.name ] ]

\* Mutant of ok_reply: a species without description is reported as not found,
\* as routes/pokemon.rs does.
ok_reply_needs_description(pokemon, description) ==
    IF description = None
    THEN [status |-> 404, body |-> [error |-> "Failed to find pokemon description"]]
    ELSE [ status |-> 200,
           body |-> [ name |-> pokemon.name,
                      description |-> description,
                      isLegendary |-> pokemon.is_legendary,
                      habitat |-> pokemon.habitat.name ] ]

\* routes/translated.rs get: the 200 reply built from the species.
ok_reply(pokemon, description) ==
    [ status |-> 200,
      body |-> [ name |-> pokemon.name,
                 description |-> description,
                 isLegendary |-> pokemon.is_legendary,
                 habitat |-> pokemon.habitat.name ] ]

\* Mutant of reply_after_translation: rate limiting is passed on to the caller,
\* as routes/pokemon.rs does.
reply_after_translation_429(pokemon, translation_response, desc) ==
    IF ~translation_response.ok
           /\ translation_response.err = "TranslationTooManyRequestsError"
    THEN [status |-> 429, body |-> [error |-> "Too many requests"]]
    ELSE [ status |-> 200,
           body |-> [ name |-> pokemon.name,
                      description |->
                          IF translation_response.ok THEN Some(translation_response.val)
                          ELSE Some(desc),
                      isLegendary |-> pokemon.is_legendary,
                      habitat |-> pokemon.habitat.name ] ]

\* routes/translated.rs get: the reply once the translation call returned.
reply_after_translation(pokemon, translation_response, desc) ==
    ok_reply(pokemon, translated_description(translation_response, desc))

\* Mutant of error_reply: the not-found arm is lost.
error_reply_always_500(pokemon_error) ==
    [status |-> 500, body |-> [error |-> "Failed to get pokemon"]]

\* Mutant of error_reply: every error takes the not-found arm.
error_reply_always_404(pokemon_error) ==
    [status |-> 404, body |-> [error |-> "Failed to find pokemon"]]

\* routes/translated.rs get: the reply to a failed species fetch.
error_reply(pokemon_error) ==
    IF pokemon_error = "PokemonNotFoundError"
    THEN [status |-> 404, body |-> [error |-> "Failed to find pokemon"]]
    ELSE [status |-> 500, body |-> [error |-> "Failed to get pokemon"]]

\* ------------------------------------------------------------------- state

VARIABLES
    pc,                     \* where the handler is: idle, get_pokemon, get_translation, done
    api_token,              \* TranslationClient.api_token, fixed at construction
    pokemon_name,           \* the path parameter of the request
    pokemon_requests,       \* requests sent to the species API, in order
    pokemon_api_answer,     \* Option: what the species API answered
    response,               \* Option: the result of get_pokemon
    translation_type,       \* Option: the variant chosen in the Ok branch
    desc,                   \* Option: pokemon.get_description() in the Ok branch
    translation_requests,   \* requests sent to the translation API, in order
    translation_api_answer, \* Option: what the translation API answered
    translation_response,   \* Option: the result of get_translation
    reply                   \* Option: the reply of the handler

vars ==
    << pc, api_token, pokemon_name, pokemon_requests, pokemon_api_answer, response,
       translation_type, desc, translation_requests, translation_api_answer,
       translation_response, reply >>

Init ==
    /\ pc = "idle"
    /\ api_token \in ApiTokens
    /\ pokemon_name = None
    /\ pokemon_requests = <<>>
    /\ pokemon_api_answer = None
    /\ response = None
    /\ translation_type = None
    /\ desc = None
    /\ translation_requests = <<>>
    /\ translation_api_answer = None
    /\ translation_response = None
    /\ reply = None

\* Mutant of Get: the species is fetched a second time.
Get_fetches_twice ==
    /\ pc = "idle"
    /\ \E name \in PokemonNames :
          /\ pokemon_name' = Some(name)
          /\ pokemon_requests' =
                 pokemon_requests \o
                     << [ method |-> "GET",
                          url |-> pokemon_url(PokemonBaseUrl, name),
                          headers |-> {} ],
                        [ method |-> "GET",
                          url |-> pokemon_url(PokemonBaseUrl, name),
                          headers |-> {} ] >>
    /\ pc' = "get_pokemon"
    /\ UNCHANGED << api_token, pokemon_api_answer, response, translation_type, desc,
                    translation_requests, translation_api_answer, translation_response,
                    reply >>

\* A request arrives; the handler sends the species fetch and awaits it.
Get ==
    /\ pc = "idle"
    /\ \E name \in PokemonNames :
          /\ pokemon_name' = Some(name)
          /\ pokemon_requests' =
                 Append(pokemon_requests,
                        [ method |-> "GET",
                          url |-> pokemon_url(PokemonBaseUrl, name),
                          headers |-> {} ])
    /\ pc' = "get_pokemon"
    /\ UNCHANGED << api_token, pokemon_api_answer, response, translation_type, desc,
                    translation_requests, translation_api_answer, translation_response,
                    reply >>

\* Mutant of AfterGetPokemon: a failed fetch that was not a 404 is tried again.
AfterGetPokemon_retries(res) ==
    /\ response' = Some(res)
    /\ IF res.ok
       THEN LET pokemon == res.val
                tt == select_translation_type(pokemon)
                d == get_description(pokemon)
            IN  /\ translation_type' = Some(tt)
                /\ desc' = Some(d)
                /\ IF d # None
                   THEN /\ translation_requests' =
                               Append(translation_requests,
                                      translation_request(TranslationBaseUrl, api_token,
                                                          d[1], tt))
                        /\ pc' = "get_translation"
                        /\ reply' = reply
                   ELSE /\ translation_requests' = translation_requests
                        /\ pc' = "done"
                        /\ reply' = Some(ok_reply(pokemon, None))
       ELSE IF res.err = "PokemonNotFoundError"
       THEN /\ reply' = Some(error_reply(res.err))
            /\ pc' = "done"
            /\ UNCHANGED << translation_type, desc, translation_requests >>
       ELSE /\ pc' = "get_pokemon"
            /\ UNCHANGED << reply, translation_type, desc, translation_requests >>

\* The handler after get_pokemon returned `res`: it runs to the translation
\* call, which it awaits, or to its reply.
AfterGetPokemon(res) ==
    /\ response' = Some(res)
    /\ IF res.ok
       THEN LET pokemon == res.val
                tt == select_translation_type(pokemon)
                d == get_description(pokemon)
            IN  /\ translation_type' = Some(tt)
                /\ desc' = Some(d)
                /\ IF d # None
                   THEN /\ translation_requests' =
                               Append(translation_requests,
                                      translation_request(TranslationBaseUrl, api_token,
                                                          d[1], tt))
                        /\ pc' = "get_translation"
                        /\ reply' = reply
                   ELSE /\ translation_requests' = translation_requests
                        /\ pc' = "done"
                        /\ reply' = Some(ok_reply(pokemon, None))
       ELSE /\ reply' = Some(error_reply(res.err))
            /\ pc' = "done"
            /\ UNCHANGED << translation_type, desc, translation_requests >>

\* The species API answers the fetch.
PokemonApiResponds ==
    /\ pc = "get_pokemon"
    /\ \E answer \in PokemonApiAnswers :
          /\ pokemon_api_answer' = Some(answer)
          /\ AfterGetPokemon(get_pokemon(answer))
    /\ UNCHANGED << api_token, pokemon_name, pokemon_requests, translation_api_answer,
                    translation_response >>

\* The handler after get_translation returned `res`: it builds its reply.
AfterGetTranslation(res) ==
    /\ translation_response' = Some(res)
    /\ reply' = Some(reply_after_translation(response[1].val, res, desc[1][1]))
    /\ pc' = "done"

\* The translation API answers the call.
TranslationApiResponds ==
    /\ pc = "get_translation"
    /\ \E answer \in TranslationApiAnswers :
          /\ translation_api_answer' = Some(answer)
          /\ AfterGetTranslation(get_translation(answer))
    /\ UNCHANGED << api_token, pokemon_name, pokemon_requests, pokemon_api_answer, response,
                    translation_type, desc, translation_requests >>

Next ==
    \/ Get
    \/ PokemonApiResponds
    \/ TranslationApiResponds

Spec == Init /\ [][Next]_vars

\* The awaited species fetch ends without a response: `client.get(url).await`
\* returns an error.  It is the case of PokemonApiResponds that stays possible
\* for as long as the handler waits.
PokemonCallFails ==
    /\ pc = "get_pokemon"
    /\ pokemon_api_answer' = Some(TransportFailure)
    /\ AfterGetPokemon(get_pokemon(TransportFailure))
    /\ UNCHANGED << api_token, pokemon_name, pokemon_requests, translation_api_answer,
                    translation_response >>

\* The awaited translation call ends without a response: `send(request).await`
\* returns an error.
TranslationCallFails ==
    /\ pc = "get_translation"
    /\ translation_api_answer' = Some(TransportFailure)
    /\ AfterGetTranslation(get_translation(TransportFailure))
    /\ UNCHANGED << api_token, pokemon_name, pokemon_requests, pokemon_api_answer, response,
                    translation_type, desc, translation_requests >>

\* One request to the translated endpoint whose upstream calls all return: no
\* await lasts for ever, it ends by a response or, at the latest, by the
\* failure of the call.  Any answer ends the await and disables the failure,
\* so the fairness chooses no answer.
FairSpec ==
    /\ Spec
    /\ WF_vars(PokemonCallFails)
    /\ WF_vars(TranslationCallFails)

\* ------------------------------------------- the plain endpoint, routes/pokemon.rs

\* client::shakespeare_client::BASE_URL, which holds the path as well.
ShakespeareBaseUrl == "funtranslations/translate/shakespeare.json"

\* client::pokemon_client::get_description(&pokemon.flavor_text_entries), the
\* function routes/pokemon.rs imports: the first English entry, its newlines
\* and form feeds collapsed to single spaces.
get_description_of_entries(flavor_text_entries) ==
    LET description == find_en(flavor_text_entries)
    IN  IF description = None THEN None
        ELSE Some(replace(replace(description[1].flavor_text, LF, <<" ">>), FF, <<" ">>))

\* The request ShakespeareClient::get_translation_response builds and sends.
shakespeare_request(base_url, token, text) ==
    [ method |-> "POST",
      url |-> <<base_url>>,
      body |-> [text |-> text],
      headers |-> IF token = None THEN {} ELSE { <<API_TOKEN_KEY, token[1]>> } ]

\* ShakespeareClient::get_translation_response, from the upstream answer on.
ShakespeareClient_get_translation_response(answer) ==
    IF ~answer.responded THEN Err("ShakespeareAPIError")
    ELSE IF answer.status = 200
         THEN IF answer.body.json THEN Ok(answer.body.value)
              ELSE Err("ShakespeareDeserializationError")
    ELSE IF answer.status = 429 THEN Err("ShakespeareTooManyRequestsError")
    ELSE Err("ShakespeareAPIError")

\* ShakespeareResponse::get_translation
ShakespeareResponse_get_translation(data) ==
    IF data.success.total = 1 THEN Ok(data.contents.translated)
    ELSE Err("ShakespeareAPIError")

\* ShakespeareClient::get_translation
ShakespeareClient_get_translation(answer) ==
    LET res == ShakespeareClient_get_translation_response(answer)
    IN  IF res.ok THEN ShakespeareResponse_get_translation(res.val)
        ELSE res

\* Mutant of get_pokemon_translation_reply: rate limiting is one more failure.
get_pokemon_translation_reply_no_429(name, translation_res) ==
    IF translation_res.ok
    THEN [status |-> 200, body |-> [name |-> name, description |-> translation_res.val]]
    ELSE [status |-> 500, body |-> [error |-> "Failed to get shakespeare translation"]]

\* routes/pokemon.rs get_pokemon: the reply once the translation call returned.
get_pokemon_translation_reply(name, translation_res) ==
    IF translation_res.ok
    THEN [status |-> 200, body |-> [name |-> name, description |-> translation_res.val]]
    ELSE IF translation_res.err = "ShakespeareTooManyRequestsError"
    THEN [status |-> 429, body |-> [error |-> "Too many requests"]]
    ELSE [status |-> 500, body |-> [error |-> "Failed to get shakespeare translation"]]

\* routes/pokemon.rs get_pokemon: the reply for a species without description.
get_pokemon_no_description_reply ==
    [status |-> 404, body |-> [error |-> "Failed to find pokemon description"]]

\* Mutant of get_pokemon_error_reply: every error is a generic failure.
get_pokemon_error_reply_always_500(pokemon_error) ==
    [status |-> 500, body |-> [error |-> "Failed to get pokemon"]]

\* routes/pokemon.rs get_pokemon: the reply to a failed species fetch.
get_pokemon_error_reply(pokemon_error) ==
    IF pokemon_error = "PokemonNotFoundError"
    THEN [status |-> 404, body |-> [error |-> "Failed to find pokemon"]]
    ELSE [status |-> 500, body |-> [error |-> "Failed to get pokemon"]]

\* A request arrives at the plain endpoint; get_pokemon sends the species
\* fetch and awaits it.
GetPokemon ==
    /\ pc = "idle"
    /\ \E name \in PokemonNames :
          /\ pokemon_name' = Some(name)
          /\ pokemon_requests' =
                 Append(pokemon_requests,
                        [ method |-> "GET",
                          url |-> pokemon_url(PokemonBaseUrl, name),
                          headers |-> {} ])
    /\ pc' = "get_pokemon"
    /\ UNCHANGED << api_token, pokemon_api_answer, response, translation_type, desc,
                    translation_requests, translation_api_answer, translation_response,
                    reply >>

\* get_pokemon after the species client returned `res`: it runs to the
\* translation call, which it awaits, or to its reply.
GetPokemonAfterFetch(res) ==
    /\ response' = Some(res)
    /\ IF res.ok
       THEN LET maybe_description == get_description_of_entries(res.val.flavor_text_entries)
            IN  /\ desc' = Some(maybe_description)
                /\ IF maybe_description # None
                   THEN /\ translation_requests' =
                               Append(translation_requests,
                                      shakespeare_request(ShakespeareBaseUrl, api_token,
                                                          maybe_description[1]))
                        /\ pc' = "get_translation"
                        /\ reply' = reply
                   ELSE /\ translation_requests' = translation_requests
                        /\ pc' = "done"
                        /\ reply' = Some(get_pokemon_no_description_reply)
       ELSE /\ reply' = Some(get_pokemon_error_reply(res.err))
            /\ pc' = "done"
            /\ UNCHANGED << desc, translation_requests >>

\* The species API answers the fetch of the plain endpoint.
GetPokemonApiResponds ==
    /\ pc = "get_pokemon"
    /\ \E answer \in PokemonApiAnswers :
          /\ pokemon_api_answer' = Some(answer)
          /\ GetPokemonAfterFetch(get_pokemon(answer))
    /\ UNCHANGED << api_token, pokemon_name, pokemon_requests, translation_type,
                    translation_api_answer, translation_response >>

\* The translation API answers the call of the plain endpoint; get_pokemon
\* builds its reply.
GetPokemonTranslationResponds ==
    /\ pc = "get_translation"
    /\ \E answer \in TranslationApiAnswers :
          /\ translation_api_answer' = Some(answer)
          /\ LET res == ShakespeareClient_get_translation(answer)
             IN  /\ translation_response' = Some(res)
                 /\ reply' = Some(get_pokemon_translation_reply(pokemon_name[1], res))
    /\ pc' = "done"
    /\ UNCHANGED << api_token, pokemon_name, pokemon_requests, pokemon_api_answer, response,
                    translation_type, desc, translation_requests >>

PlainNext ==
    \/ GetPokemon
    \/ GetPokemonApiResponds
    \/ GetPokemonTranslationResponds

\* One request to the plain endpoint.
PlainSpec == Init /\ [][PlainNext]_vars

\* ------------------------------- concurrent requests to the translated endpoint

\* routes/mod.rs routes: every request runs translated::get on its own clones
\* of the two clients.  Here every variable but api_token is a function of
\* the request: the locals of its handler, and the calls it sent.
Requests == 1 .. MaxRequests

\* Species the species API returns to concurrent requests: they differ in
\* name, habitat, legendary flag and description.
SamplePokemons ==
    { [ name |-> "charizard", is_legendary |-> FALSE, habitat |-> [name |-> "urban"],
        flavor_text_entries |->
            << [flavor_text |-> <<"a", LF, "b">>, language |-> [name |-> "en"]] >> ],
      [ name |-> "zubat", is_legendary |-> FALSE, habitat |-> [name |-> "cave"],
        flavor_text_entries |->
            << [flavor_text |-> <<"a", FF, "b">>, language |-> [name |-> "en"]] >> ],
      [ name |-> "zubat", is_legendary |-> TRUE, habitat |-> [name |-> "urban"],
        flavor_text_entries |->
            << [flavor_text |-> OtherText, language |-> [name |-> "fr"]] >> ] }

SamplePokemonApiAnswers ==
    { TransportFailure, HttpResponse(404, InvalidBody) }
        \cup { HttpResponse(200, JsonBody(p)) : p \in SamplePokemons }

SampleTranslationApiAnswers ==
    { HttpResponse(429, InvalidBody),
      HttpResponse(200, JsonBody([ success |-> [total |-> 1],
                                   contents |-> [translated |-> <<"y">>] ])) }

ConcurrentInit ==
    /\ api_token \in ApiTokens
    /\ pc = [r \in Requests |-> "idle"]
    /\ pokemon_name = [r \in Requests |-> None]
    /\ pokemon_requests = [r \in Requests |-> <<>>]
    /\ pokemon_api_answer = [r \in Requests |-> None]
    /\ response = [r \in Requests |-> None]
    /\ translation_type = [r \in Requests |-> None]
    /\ desc = [r \in Requests |-> None]
    /\ translation_requests = [r \in Requests |-> <<>>]
    /\ translation_api_answer = [r \in Requests |-> None]
    /\ translation_response = [r \in Requests |-> None]
    /\ reply = [r \in Requests |-> None]

\* Request r arrives; its handler sends the species fetch and awaits it.
ConcurrentGet(r) ==
    /\ pc[r] = "idle"
    /\ \E name \in PokemonNames :
          /\ pokemon_name' = [pokemon_name EXCEPT ![r] = Some(name)]
          /\ pokemon_requests' =
                 [pokemon_requests EXCEPT ![r] =
                     Append(@, [ method |-> "GET",
                                 url |-> pokemon_url(PokemonBaseUrl, name),
                                 headers |-> {} ])]
    /\ pc' = [pc EXCEPT ![r] = "get_pokemon"]
    /\ UNCHANGED << api_token, pokemon_api_answer, response, translation_type, desc,
                    translation_requests, translation_api_answer, translation_response,
                    reply >>

\* The species API answers the fetch of request r; its handler runs to the
\* translation call or to its reply.
ConcurrentPokemonApiResponds(r) ==
    /\ pc[r] = "get_pokemon"
    /\ \E answer \in SamplePokemonApiAnswers :
          LET res == get_pokemon(answer)
          IN  /\ pokemon_api_answer' = [pokemon_api_answer EXCEPT ![r] = Some(answer)]
              /\ response' = [response EXCEPT ![r] = Some(res)]
              /\ IF res.ok
                 THEN LET pokemon == res.val
                          tt == select_translation_type(pokemon)
                          d == get_description(pokemon)
                      IN  /\ translation_type' = [translation_type EXCEPT ![r] = Some(tt)]
                          /\ desc' = [desc EXCEPT ![r] = Some(d)]
                          /\ IF d # None
                             THEN /\ translation_requests' =
                                         [translation_requests EXCEPT ![r] =
                                             Append(@, translation_request(
                                                           TranslationBaseUrl, api_token,
                                                           d[1], tt))]
                                  /\ pc' = [pc EXCEPT ![r] = "get_translation"]
                                  /\ reply' = reply
                             ELSE /\ translation_requests' = translation_requests
                                  /\ pc' = [pc EXCEPT ![r] = "done"]
                                  /\ reply' = [reply EXCEPT ![r] = Some(ok_reply(pokemon, None))]
                 ELSE /\ reply' = [reply EXCEPT ![r] = Some(error_reply(res.err))]
                      /\ pc' = [pc EXCEPT ![r] = "done"]
                      /\ UNCHANGED << translation_type, desc, translation_requests >>
    /\ UNCHANGED << api_token, pokemon_name, pokemon_requests, translation_api_answer,
                    translation_response >>

\* Mutant of ConcurrentTranslationApiResponds: the species and the description
\* are kept in one place for all requests, so that the reply of request r is
\* built from those of the first request that has them.
ConcurrentTranslationApiResponds_shared(r) ==
    /\ pc[r] = "get_translation"
    /\ \E answer \in SampleTranslationApiAnswers :
          LET res == get_translation(answer)
              q == IF desc[1] # None /\ desc[1][1] # None THEN 1 ELSE r
          IN  /\ translation_api_answer' = [translation_api_answer EXCEPT ![r] = Some(answer)]
              /\ translation_response' = [translation_response EXCEPT ![r] = Some(res)]
              /\ reply' =
                     [reply EXCEPT ![r] =
                         Some(reply_after_translation(response[q][1].val, res, desc[q][1][1]))]
    /\ pc' = [pc EXCEPT ![r] = "done"]
    /\ UNCHANGED << api_token, pokemon_name, pokemon_requests, pokemon_api_answer, response,
                    translation_type, desc, translation_requests >>

\* The translation API answers the call of request r; its handler builds its reply.
ConcurrentTranslationApiResponds(r) ==
    /\ pc[r] = "get_translation"
    /\ \E answer \in SampleTranslationApiAnswers :
          LET res == get_translation(answer)
          IN  /\ translation_api_answer' = [translation_api_answer EXCEPT ![r] = Some(answer)]
              /\ translation_response' = [translation_response EXCEPT ![r] = Some(res)]
              /\ reply' =
                     [reply EXCEPT ![r] =
                         Some(reply_after_translation(response[r][1].val, res, desc[r][1][1]))]
    /\ pc' = [pc EXCEPT ![r] = "done"]
    /\ UNCHANGED << api_token, pokemon_name, pokemon_requests, pokemon_api_answer, response,
                    translation_type, desc, translation_requests >>

ConcurrentNext ==
    \/ \E r \in Requests : ConcurrentGet(r)
    \/ \E r \in Requests : ConcurrentPokemonApiResponds(r)
    \/ \E r \in Requests : ConcurrentTranslationApiResponds(r)

\* Requests to the translated endpoint handled together, in any interleaving.
ConcurrentSpec == ConcurrentInit /\ [][ConcurrentNext]_vars

\* ------------------------------------------------- vocabulary of the claims

\* The species API answered the fetch with HTTP 200 and a body that is a species.
SpeciesFetched ==
    /\ pokemon_api_answer # None
    /\ pokemon_api_answer[1].responded
    /\ pokemon_api_answer[1].status = 200
    /\ pokemon_api_answer[1].body.json

\* That species, read from the upstream body.
FetchedSpecies == pokemon_api_answer[1].body.value

\* The species API answered the fetch, and not with a species.
SpeciesFetchFailed == pokemon_api_answer # None /\ ~SpeciesFetched

\* The species API answered the fetch with HTTP 404.
SpeciesAbsent ==
    /\ pokemon_api_answer # None
    /\ pokemon_api_answer[1].responded
    /\ pokemon_api_answer[1].status = 404

EnglishIndexes(entries) == { i \in DOMAIN entries : entries[i].language.name = "en" }

HasEnglishEntry == EnglishIndexes(FetchedSpecies.flavor_text_entries) # {}

\* The species has the Alternate attributes: it lives in caves or is legendary.
CaveOrLegendary == FetchedSpecies.habitat.name = "cave" \/ FetchedSpecies.is_legendary = TRUE

TranslationAnswered == translation_api_answer # None

\* The translation API answered HTTP 200 with a well-formed body of total 1.
TranslationSucceeded ==
    /\ TranslationAnswered
    /\ translation_api_answer[1].responded
    /\ translation_api_answer[1].status = 200
    /\ translation_api_answer[1].body.json
    /\ translation_api_answer[1].body.value.success.total = 1

\* Any other answer: 429, total # 1, an undeserializable body, another status,
\* a transport failure.
TranslationFailed == TranslationAnswered /\ ~TranslationSucceeded

TooManyRequests ==
    /\ TranslationAnswered
    /\ translation_api_answer[1].responded
    /\ translation_api_answer[1].status = 429

Replied == pc = "done" /\ reply # None

\* ------------------------------------------------------------------ claims

\* C1: when the species was fetched, an English description exists and the
\* translation call failed in any way, the reply is 200 and its description is
\* the normalized untranslated description; the reply is a function of the
\* species alone, so it is the same for every kind of failure.
C1_FallbackOnAnyTranslationFailure ==
    (SpeciesFetched /\ HasEnglishEntry /\ TranslationFailed) =>
        /\ Replied
        /\ reply[1].status = 200
        /\ reply[1].body.description = get_description(FetchedSpecies)
        /\ reply[1].body.description # None
        /\ reply[1] = ok_reply(FetchedSpecies, get_description(FetchedSpecies))

\* C1 witness: a 429 on a description whose newline became a space.
C1_Witness ==
    /\ SpeciesFetched
    /\ Len(FetchedSpecies.flavor_text_entries) = 1
    /\ FetchedSpecies.flavor_text_entries[1] =
           [flavor_text |-> <<"a", LF, "b">>, language |-> [name |-> "en"]]
    /\ TooManyRequests
    /\ Replied
    /\ reply[1].status = 200
    /\ reply[1].body.description = Some(<<"a", " ", "b">>)

\* C2: when the species API answers 404, the request ends with status 404 and
\* the not-found error body, and no translation request was ever sent.
C2_AbsentSpeciesIsNotFoundWithoutTranslation ==
    SpeciesAbsent =>
        /\ Replied
        /\ reply[1] = [status |-> 404, body |-> [error |-> "Failed to find pokemon"]]
        /\ translation_requests = <<>>
        /\ ~TranslationAnswered

\* C2 witness: a request that ended on a 404 of the species API.
C2_Witness ==
    /\ SpeciesAbsent
    /\ Replied
    /\ reply[1].status = 404
    /\ Len(pokemon_requests) = 1

\* C3: the variant is YODA exactly when the habitat is "cave" or the species is
\* legendary, and SHAKESPEARE otherwise, whatever the entries and the name asked.
C3_VariantFromHabitatAndLegendary ==
    /\ SpeciesFetched <=> translation_type # None
    /\ SpeciesFetched =>
           /\ translation_type[1] \in {"YODA", "SHAKESPEARE"}
           /\ translation_type[1] = "YODA" <=> CaveOrLegendary

\* C3 witness: a legendary species outside caves gets YODA.
C3_Witness ==
    /\ SpeciesFetched
    /\ FetchedSpecies.habitat.name = "urban"
    /\ FetchedSpecies.is_legendary
    /\ translation_type = Some("YODA")

\* C4: every translation request goes to the base URL followed by the path of
\* the variant: translate/yoda.json for a cave or legendary species,
\* translate/shakespeare.json for any other.
C4_RequestPathFollowsVariant ==
    \A i \in DOMAIN translation_requests :
        /\ SpeciesFetched
        /\ translation_requests[i].method = "POST"
        /\ translation_requests[i].url =
               << TranslationBaseUrl,
                  IF CaveOrLegendary THEN "translate/yoda.json"
                  ELSE "translate/shakespeare.json" >>

\* C4 witness: a cave species that is not legendary, posted to the yoda path.
C4_Witness ==
    /\ SpeciesFetched
    /\ FetchedSpecies.habitat.name = "cave"
    /\ ~FetchedSpecies.is_legendary
    /\ Len(translation_requests) = 1
    /\ translation_requests[1].url = <<TranslationBaseUrl, "translate/yoda.json">>

\* C5: when the species was fetched, an English description exists and the
\* translation API answered 200 with total 1, the reply is 200 and its
\* description is the translated text of that answer.
C5_TranslatedTextOnSuccess ==
    (SpeciesFetched /\ HasEnglishEntry /\ TranslationSucceeded) =>
        /\ Replied
        /\ reply[1].status = 200
        /\ reply[1].body.description =
               Some(translation_api_answer[1].body.value.contents.translated)

\* C5 witness: a translated text that differs from the description sent.
C5_Witness ==
    /\ SpeciesFetched
    /\ TranslationSucceeded
    /\ Replied
    /\ reply[1].body.description = Some(<<"y">>)
    /\ get_description(FetchedSpecies) = Some(<<"a", " ", "b">>)

\* The normalization the specification describes: every newline and every form
\* feed becomes one space, every other character stays.
SpaceForLineBreaks(text) ==
    [i \in DOMAIN text |-> IF text[i] \in {LF, FF} THEN " " ELSE text[i]]

\* C6: the description selected is the English text with every newline and
\* every form feed replaced by one space and nothing else changed.
C6_LineBreaksBecomeSpaces ==
    (SpeciesFetched /\ HasEnglishEntry) =>
        \E i \in EnglishIndexes(FetchedSpecies.flavor_text_entries) :
            desc = Some(Some(SpaceForLineBreaks(
                       FetchedSpecies.flavor_text_entries[i].flavor_text)))

\* C7: when the species was fetched and no entry is English, the request ends
\* with status 200 and no description.
C7_NoEnglishEntryIsSuccessWithoutDescription ==
    (SpeciesFetched /\ ~HasEnglishEntry) =>
        /\ Replied
        /\ reply[1].status = 200
        /\ reply[1].body.description = None
        /\ reply[1] = ok_reply(FetchedSpecies, None)

\* C7 witness: a species whose only entry is in another language.
C7_Witness ==
    /\ SpeciesFetched
    /\ Len(FetchedSpecies.flavor_text_entries) = 1
    /\ FetchedSpecies.flavor_text_entries[1].language.name = "fr"
    /\ Replied
    /\ reply[1].status = 200
    /\ reply[1].body.description = None

\* C8: the description comes from the first English entry in sequence order:
\* entries of other languages before it are skipped, English entries after it
\* are ignored.
C8_FirstEnglishEntrySelected ==
    SpeciesFetched =>
        LET entries == FetchedSpecies.flavor_text_entries
            en == EnglishIndexes(entries)
        IN  /\ desc # None
            /\ en = {} => desc[1] = None
            /\ en # {} =>
                   \E i \in en :
                       /\ \A j \in en : i <= j
                       /\ desc[1] = Some(normalize_flavor_text(entries[i].flavor_text))

\* C8 witness: an entry of another language, then two English entries with
\* different texts; the description is the first English one.
C8_Witness ==
    /\ SpeciesFetched
    /\ Len(FetchedSpecies.flavor_text_entries) = 3
    /\ FetchedSpecies.flavor_text_entries[1].language.name = "fr"
    /\ FetchedSpecies.flavor_text_entries[2] =
           [flavor_text |-> <<"a", " ", "b">>, language |-> [name |-> "en"]]
    /\ FetchedSpecies.flavor_text_entries[3] =
           [flavor_text |-> <<>>, language |-> [name |-> "en"]]
    /\ desc = Some(Some(<<"a", " ", "b">>))

\* C9: every reply has status 200, 404 or 500, and once the species was
\* fetched the status is 200 whatever the translation API answers.
C9_StatusIs200Or404Or500 ==
    reply # None =>
        /\ reply[1].status \in {200, 404, 500}
        /\ SpeciesFetched => reply[1].status = 200

\* C9 witness: a 200 reply after the translation API answered 429.
C9_Witness ==
    /\ SpeciesFetched
    /\ TooManyRequests
    /\ Replied
    /\ reply[1].status = 200

\* C10: a species fetch that failed otherwise than by a 404 ends the request
\* with status 500, and no translation request was sent.
C10_OtherSpeciesErrorsAre500 ==
    (SpeciesFetchFailed /\ ~SpeciesAbsent) =>
        /\ Replied
        /\ reply[1] = [status |-> 500, body |-> [error |-> "Failed to get pokemon"]]
        /\ reply[1].status # 404
        /\ translation_requests = <<>>
        /\ ~TranslationAnswered

\* C10 witness: a 200 of the species API whose body is no species.
C10_Witness ==
    /\ pokemon_api_answer = Some(HttpResponse(200, InvalidBody))
    /\ Replied
    /\ reply[1].status = 500

\* C11: the result of the species client is a function of the upstream answer:
\* 200 with a species gives Ok of exactly that species, 200 with another body
\* gives the deserialization error, 404 the not-found error, and every other
\* status and every transport failure the API error.
C11_SpeciesClientOutcome ==
    /\ (pokemon_api_answer = None) <=> (response = None)
    /\ pokemon_api_answer # None =>
           LET answer == pokemon_api_answer[1]
           IN  response[1] =
                   IF ~answer.responded THEN Err("PokemonAPIError")
                   ELSE CASE answer.status = 200 /\ answer.body.json ->
                                 Ok(answer.body.value)
                          [] answer.status = 200 /\ ~answer.body.json ->
                                 Err("PokemonDeserializationError")
                          [] answer.status = 404 -> Err("PokemonNotFoundError")
                          [] OTHER -> Err("PokemonAPIError")

\* C11 witness: a 404 of the species API, reported as the not-found error.
C11_Witness ==
    /\ SpeciesAbsent
    /\ response = Some(Err("PokemonNotFoundError"))

\* The translation API answered HTTP 200 with a well-formed body whose total
\* is not 1.
TranslationTotalNotOne ==
    /\ TranslationAnswered
    /\ translation_api_answer[1].responded
    /\ translation_api_answer[1].status = 200
    /\ translation_api_answer[1].body.json
    /\ translation_api_answer[1].body.value.success.total # 1

\* C12 as stated: a well-formed 200 body with a total other than 1 gives the
\* deserialization error.
C12_TotalNotOneIsDeserializationError ==
    TranslationTotalNotOne =>
        translation_response = Some(Err("TranslationDeserializationError"))

\* C12 as amended: a well-formed 200 body with a total other than 1 (0, 2,
\* negative) gives the API error, the kind of a transport failure, and not
\* the deserialization error of a body that fails to deserialize.
C12_TotalNotOneIsApiError ==
    /\ TranslationTotalNotOne =>
           translation_response = Some(Err("TranslationAPIError"))
    /\ translation_api_answer = Some(HttpResponse(200, InvalidBody)) =>
           translation_response = Some(Err("TranslationDeserializationError"))

\* C12 witness: a total of 0 reported as the API error.
C12_Witness ==
    /\ TranslationTotalNotOne
    /\ translation_api_answer[1].body.value.success.total = 0
    /\ translation_response = Some(Err("TranslationAPIError"))

\* C13: a well-formed 200 body with total 1 makes the translation client
\* return exactly the translated text of that body, for either variant.
C13_TranslatedTextReturned ==
    TranslationSucceeded =>
        /\ translation_type[1] \in {"YODA", "SHAKESPEARE"}
        /\ translation_response =
               Some(Ok(translation_api_answer[1].body.value.contents.translated))

\* C13 witness: the translated text returned for a call of the YODA variant.
C13_Witness ==
    /\ TranslationSucceeded
    /\ translation_type = Some("YODA")
    /\ translation_response = Some(Ok(<<"a", " ", "y">>))

\* C14: the translation client maps HTTP 429 to the too-many-requests error,
\* HTTP 200 with an undeserializable body to the deserialization error, and
\* every other status and every transport failure to the API error, which is
\* another kind than the too-many-requests error.
C14_TranslationStatusMapping ==
    /\ (translation_api_answer = None) <=> (translation_response = None)
    /\ translation_api_answer # None =>
           LET answer == translation_api_answer[1]
           IN  /\ ~answer.responded =>
                      translation_response[1] = Err("TranslationAPIError")
               /\ (answer.responded /\ answer.status = 429) =>
                      /\ translation_response[1] = Err("TranslationTooManyRequestsError")
                      /\ translation_response[1] # Err("TranslationAPIError")
               /\ (answer.responded /\ answer.status = 200 /\ ~answer.body.json) =>
                      translation_response[1] = Err("TranslationDeserializationError")
               /\ (answer.responded /\ answer.status \notin {200, 429}) =>
                      translation_response[1] = Err("TranslationAPIError")

\* C14 witness: a 429 reported as the too-many-requests error.
C14_Witness ==
    /\ TooManyRequests
    /\ translation_response = Some(Err("TranslationTooManyRequestsError"))

\* C15: a translation request carries the credential header, with the value
\* configured, exactly when a credential is configured; without one it has no
\* such header at all; no request to the species API ever carries it.
C15_CredentialHeader ==
    /\ \A i \in DOMAIN translation_requests :
           /\ api_token # None =>
                  translation_requests[i].headers = { <<API_TOKEN_KEY, api_token[1]>> }
           /\ api_token = None =>
                  \A h \in translation_requests[i].headers : h[1] # API_TOKEN_KEY
    /\ \A i \in DOMAIN pokemon_requests :
           \A h \in pokemon_requests[i].headers : h[1] # API_TOKEN_KEY

\* C15 witness: a translation request sent without a configured credential.
C15_Witness ==
    /\ api_token = None
    /\ Len(pokemon_requests) = 1
    /\ Len(translation_requests) = 1
    /\ translation_requests[1].headers = {}

\* C16: the plain endpoint sends no request to the translation service on any
\* path, and its successful reply carries the untranslated normalized
\* description.
C16_PlainEndpointNeverTranslates ==
    /\ translation_requests = <<>>
    /\ ~TranslationAnswered
    /\ (SpeciesFetched /\ HasEnglishEntry) =>
           /\ Replied
           /\ reply[1].status = 200
           /\ Some(reply[1].body.description) =
                  get_description_of_entries(FetchedSpecies.flavor_text_entries)

\* C17: on the plain endpoint of routes/pokemon.rs, when the species was
\* fetched and an English description exists, that description is posted to
\* the Shakespeare translation and the answer decides the reply: success gives
\* 200 with the requested name and the translated text, a 429 gives 429 with
\* "Too many requests", every other failure gives 500.
C17_PlainReplyFollowsTranslation ==
    (SpeciesFetched /\ HasEnglishEntry) =>
        /\ desc # None /\ desc[1] # None
        /\ Len(translation_requests) = 1
        /\ translation_requests[1].url = <<ShakespeareBaseUrl>>
        /\ translation_requests[1].body = [text |-> desc[1][1]]
        /\ ~TranslationAnswered => pc = "get_translation" /\ reply = None
        /\ TranslationAnswered => Replied
        /\ TranslationSucceeded =>
               reply[1] =
                   [ status |-> 200,
                     body |-> [ name |-> pokemon_name[1],
                                description |->
                                    translation_api_answer[1].body.value.contents.translated ] ]
        /\ TooManyRequests =>
               reply[1] = [status |-> 429, body |-> [error |-> "Too many requests"]]
        /\ (TranslationFailed /\ ~TooManyRequests) => reply[1].status = 500

\* C17 witness: a 429 of the translation service passed on by the plain endpoint.
C17_Witness ==
    /\ SpeciesFetched
    /\ HasEnglishEntry
    /\ TooManyRequests
    /\ Replied
    /\ reply[1].status = 429

\* C18: on the plain endpoint the not-found error of the species client gives
\* 404 with the not-found body, every other error of the species client gives
\* 500 with the generic body.
C18_PlainSpeciesErrors ==
    /\ SpeciesAbsent =>
           /\ Replied
           /\ reply[1] = [status |-> 404, body |-> [error |-> "Failed to find pokemon"]]
    /\ (SpeciesFetchFailed /\ ~SpeciesAbsent) =>
           /\ Replied
           /\ reply[1] = [status |-> 500, body |-> [error |-> "Failed to get pokemon"]]
           /\ reply[1] # [status |-> 404, body |-> [error |-> "Failed to find pokemon"]]

\* C18 witness: the plain endpoint answering 404 to a 404 of the species API.
C18_Witness ==
    /\ SpeciesAbsent
    /\ Replied
    /\ reply[1].status = 404
    /\ translation_type = None

\* C19: on the plain endpoint a species without English entry ends in a
\* successful reply without description, not in a not-found or failure reply.
C19_PlainNoEnglishEntryIsSuccess ==
    (SpeciesFetched /\ ~HasEnglishEntry) =>
        /\ Replied
        /\ reply[1].status = 200

\* The calls sent so far by a request to the translated endpoint: one species
\* fetch once the request arrived, at most one translation call and only for
\* a fetched species, and after a failed call the handler is done with that
\* call sent once.
CallCounts ==
    /\ Len(pokemon_requests) = (IF pc = "idle" THEN 0 ELSE 1)
    /\ Len(translation_requests) <= 1
    /\ translation_requests # <<>> =>
           /\ SpeciesFetched
           /\ response # None /\ response[1].ok
    /\ pokemon_api_answer = None => translation_requests = <<>>
    /\ (SpeciesFetchFailed \/ TranslationFailed) =>
           /\ pc = "done"
           /\ Len(pokemon_requests) = 1
           /\ Len(translation_requests) = (IF TranslationFailed THEN 1 ELSE 0)

\* The order of the calls: the species fetch is sent by the first step, a
\* translation call only by the step that receives the species, and nothing
\* is sent once the handler has replied.
CallOrder ==
    /\ pokemon_requests' # pokemon_requests => pc = "idle"
    /\ translation_requests' # translation_requests =>
           pc = "get_pokemon" /\ translation_requests = <<>>
    /\ pc = "done" => UNCHANGED << pokemon_requests, translation_requests >>

\* C20: a request to the translated endpoint issues exactly one species fetch
\* and at most one translation call, the translation call only once the
\* species fetch has returned a species, and repeats no call after a failure.
C20_CallsSequentialAndNeverRepeated == []CallCounts /\ [][CallOrder]_vars

\* C20 witness: one fetch and one translation call, the latter failed and was
\* not repeated.
C20_Witness ==
    /\ pc = "done"
    /\ TranslationFailed
    /\ ~translation_api_answer[1].responded
    /\ Len(pokemon_requests) = 1
    /\ Len(translation_requests) = 1

\* C23: a translation call is made exactly when the species was fetched and
\* has an English entry; a fetched species without English entry causes no
\* translation call, although its variant was selected.
C23_TranslationCallIffEnglishDescription ==
    /\ (translation_requests # <<>>) <=> (SpeciesFetched /\ HasEnglishEntry)
    /\ (SpeciesFetched /\ ~HasEnglishEntry) =>
           /\ translation_requests = <<>>
           /\ ~TranslationAnswered
           /\ translation_type # None
           /\ pc = "done"

\* C23 witness: a legendary species with one entry in another language: YODA
\* was selected and no translation call was made.
C23_Witness ==
    /\ SpeciesFetched
    /\ Len(FetchedSpecies.flavor_text_entries) = 1
    /\ ~HasEnglishEntry
    /\ translation_type = Some("YODA")
    /\ translation_requests = <<>>
    /\ Replied

\* C24: in every 200 reply of the translated endpoint name, isLegendary and
\* habitat are the fetched species' name, is_legendary and habitat.name,
\* whatever was asked for and whatever became of the translation; nothing but
\* the description depends on the translation.
C24_ReplyFieldsFromSpecies ==
    (reply # None /\ reply[1].status = 200) =>
        /\ SpeciesFetched
        /\ reply[1].body.name = FetchedSpecies.name
        /\ reply[1].body.isLegendary = FetchedSpecies.is_legendary
        /\ reply[1].body.habitat = FetchedSpecies.habitat.name
        /\ DOMAIN reply[1].body = {"name", "description", "isLegendary", "habitat"}

\* C24 witness: a 200 reply after a fallback whose name is the upstream
\* species' name and not the name asked for.
C24_Witness ==
    /\ Replied
    /\ reply[1].status = 200
    /\ TranslationFailed
    /\ pokemon_name = Some("charizard")
    /\ reply[1].body.name = "zubat"

\* C25: the text in the body of the translation request is the normalized
\* description of the first English entry, with no newline left in it, and
\* on a failed translation the description replied is the very text sent.
C25_NormalizedTextSentAndFallenBackTo ==
    \A i \in DOMAIN translation_requests :
        /\ SpeciesFetched /\ HasEnglishEntry
        /\ Some(translation_requests[i].body.text) = get_description(FetchedSpecies)
        /\ \A k \in DOMAIN translation_requests[i].body.text :
               translation_requests[i].body.text[k] # LF
        /\ DOMAIN translation_requests[i].body = {"text"}
        /\ TranslationFailed =>
               /\ Replied
               /\ reply[1].body.description = Some(translation_requests[i].body.text)

\* C25 witness: an entry with a newline, sent with a space in its place, and
\* replied so after a 429.
C25_Witness ==
    /\ SpeciesFetched
    /\ Len(FetchedSpecies.flavor_text_entries) = 1
    /\ FetchedSpecies.flavor_text_entries[1].flavor_text = <<"a", LF, "b">>
    /\ FetchedSpecies.flavor_text_entries[1].language.name = "en"
    /\ Len(translation_requests) = 1
    /\ translation_requests[1].body.text = <<"a", " ", "b">>
    /\ TooManyRequests
    /\ Replied
    /\ reply[1].body.description = Some(<<"a", " ", "b">>)

\* How far the handler of the translated endpoint has come.
PcRank(p) ==
    CASE p = "idle" -> 0
      [] p = "get_pokemon" -> 1
      [] p = "get_translation" -> 2
      [] p = "done" -> 3

\* C22: when every upstream call returns, a request that arrived reaches its
\* reply; the reply is there exactly when the handler is done and has status
\* 200, 404 or 500; every step moves the handler forward, so there are at
\* most three steps and none after the reply, hence no call after it.
C22_EveryRequestTerminatesOnce ==
    /\ (pc # "idle") ~> (pc = "done" /\ reply # None)
    /\ [](reply # None <=> pc = "done")
    /\ [](reply # None => reply[1].status \in {200, 404, 500})
    /\ [][ /\ PcRank(pc') > PcRank(pc)
           /\ pc # "done"
           /\ reply # None => reply' = reply ]_vars

\* C22 witness: a request done after its two upstream calls, the translation
\* having succeeded.
C22_Witness ==
    /\ pc = "done"
    /\ TranslationSucceeded
    /\ Len(pokemon_requests) = 1
    /\ Len(translation_requests) = 1
    /\ reply # None
    /\ reply[1].status = 200

\* The reply of one request run alone, from the answers of the two services:
\* the species client's result decides between the error replies and the 200
\* reply, the description and the translation client's result fill the latter.
ReplyAlone(pokemon_answer, translation_answer) ==
    LET res == get_pokemon(pokemon_answer)
    IN  IF ~res.ok THEN error_reply(res.err)
        ELSE IF get_description(res.val) = None THEN ok_reply(res.val, None)
        ELSE reply_after_translation(res.val, get_translation(translation_answer[1]),
                                     get_description(res.val)[1])

\* Everything request r holds: the locals of its handler and the calls it sent.
Locals(r) ==
    << pc[r], pokemon_name[r], pokemon_requests[r], pokemon_api_answer[r], response[r],
       translation_type[r], desc[r], translation_requests[r], translation_api_answer[r],
       translation_response[r], reply[r] >>

\* What request r holds comes from its own upstream answers alone.
OwnAnswersOnly(r) ==
    /\ response[r] # None =>
           response[r][1] = get_pokemon(pokemon_api_answer[r][1])
    /\ (response[r] # None /\ response[r][1].ok) =>
           /\ translation_type[r] = Some(select_translation_type(response[r][1].val))
           /\ desc[r] = Some(get_description(response[r][1].val))
    /\ \A i \in DOMAIN translation_requests[r] :
           translation_requests[r][i] =
               translation_request(TranslationBaseUrl, api_token, desc[r][1][1],
                                   translation_type[r][1])
    /\ reply[r] # None =>
           reply[r][1] = ReplyAlone(pokemon_api_answer[r][1], translation_api_answer[r])

\* A step is a step of one request: what the other requests hold is left as
\* it was, and so is the shared configuration.
OneRequestSteps ==
    /\ api_token' = api_token
    /\ \E r \in Requests : \A q \in Requests \ {r} : Locals(q)' = Locals(q)

\* C21: in every interleaving of concurrent requests each reply is the one the
\* request gets alone from the same upstream answers; a step of one request
\* leaves the species, variant, description and outcome of the others
\* untouched, and the credential configured is never changed.
C21_ConcurrentRequestsAreIndependent ==
    /\ [](\A r \in Requests : OwnAnswersOnly(r))
    /\ [][OneRequestSteps]_vars

\* C21 witness: request 1 awaits its translation for one species while request
\* 2, started before it ended, has replied for another.
C21_Witness ==
    /\ pc[1] = "get_translation"
    /\ response[1][1].val.name = "charizard"
    /\ desc[1] = Some(Some(<<"a", " ", "b">>))
    /\ pc[2] = "done"
    /\ reply[2] # None
    /\ reply[2][1].status = 200
    /\ reply[2][1].body.name = "zubat"
    /\ reply[2][1].body.description = Some(<<"a", "b">>)

====
